---- MODULE Spec2Model ----
(***************************************************************************)
(* The streaming-connection manager of BisonClient (src/src/client.ts):    *)
(* listen, listenToKalshiEvent and listenToOrderbook, the WebSocket        *)
(* handlers they attach, the reconnect timer, the heartbeat interval and   *)
(* the disposer each of them returns.                                      *)
(*                                                                         *)
(* The client keeps ONE set of fields per channel kind (ws, reconnectTimer,*)
(* heartbeatTimer, shouldReconnect, reconnectAttempts); every listen* call *)
(* creates a closure (a subscription) over those fields.  A transport      *)
(* keeps the handlers of the closure that created it.  A timeout and an    *)
(* interval are created at most once per transport (in its onclose and its *)
(* onopen), so both are identified by the transport's index.               *)
(*                                                                         *)
(* The WebSocket follows the WHATWG interface: close() moves CONNECTING    *)
(* and OPEN to CLOSING, the close event is delivered later with readyState *)
(* CLOSED, message events are delivered only while OPEN, and an error      *)
(* event is delivered in the task that then delivers the close event.      *)
(*                                                                         *)
(* A callback of the caller either returns or calls the disposer of its    *)
(* own subscription before it returns; the handler that invoked it then    *)
(* runs its remaining statements on the fields the disposer left.          *)
(***************************************************************************)
EXTENDS Integers, Sequences, FiniteSets, TLC

\* ---------------------------------------------------------------- bounds
\* listen* calls and transports constructed in a run of Spec
MaxSubs == 2
MaxSocks == 4
\* transports constructed in a run of SpecChannel
MaxChannelSocks == 3
\* listen* calls and transports constructed in a run of SpecRetry
MaxRetrySubs == 1
MaxRetrySocks == 6
\* listen* calls and transports constructed in a run of SpecFrames
MaxFrameSubs == 1
MaxFrameSocks == 2
\* listen* calls and transports constructed in a run of SpecCallback
MaxCallbackSubs == 1
MaxCallbackSocks == 3
\* listen* calls and transports constructed in a run of SpecOrder, and the
\* number of frames whose arrival and delivery it records
MaxOrderSubs == 1
MaxOrderSocks == 2
MaxOrderFrames == 3
\* listen* calls and transports constructed in a run of SpecErrors
MaxErrorSubs == 1
MaxErrorSocks == 2
\* listen* calls and transports constructed in a run of SpecThrow
MaxThrowSubs == 1
MaxThrowSocks == 2
\* operations called in a run of SpecDev
MaxDevCalls == 3
\* the largest magnitude of a quantity converted in SpecFixed
MaxQuantity == 120
\* flow operations started in SpecFlows, and the subscriptions and transports
\* their listen calls may create
MaxFlows == 2
MaxFlowSubs == 2
MaxFlowSocks == 2
\* buy and sell flows started in SpecTrade, and the subscriptions and
\* transports of the account-event channel
MaxTradeFlows == 1
MaxTradeSubs == 1
MaxTradeSocks == 2
\* the largest whole part of a string converted in SpecFixed and SpecUsdc
MaxWhole == 11
\* the amounts converted in SpecUsdc lie within MaxQuantity of a multiple of
\* half a USDC, up to MaxHalves halves on either side of zero
MaxHalves == 3

\* ------------------------------------------------------ program constants
maxReconnectAttempts == 5
BaseDelayMs == 1000
MaxDelayMs == 30000

Channels == {"evm", "event", "orderbook"}
\* the `reconnect` member of the options argument
Opts == {"true", "false", "omitted"}
Live == {"CONNECTING", "OPEN"}
ReadyStates == {"CONNECTING", "OPEN", "CLOSING", "CLOSED"}

\* inbound payloads, by what JSON.parse and the `in` tests make of them
TypeVals == {"absent", "ping", "pong", "order_filled", "orderbook_snapshot",
             "orderbook_delta", "orderbook_error"}
\* json: "invalid" (JSON.parse throws), "nonobject" (null, a number, a string,
\* a boolean), "array" (typeof 'object', no named member), "object";
\* type: the value of the member `type`; ticker: a member `market_ticker` exists
Payloads ==
    {[json |-> "invalid", type |-> "absent", ticker |-> FALSE],
     [json |-> "nonobject", type |-> "absent", ticker |-> FALSE],
     [json |-> "array", type |-> "absent", ticker |-> FALSE]}
    \cup [json : {"object"}, type : TypeVals, ticker : BOOLEAN]
\* no frame: the step was not a message event
NoFrame == [json |-> "none", type |-> "absent", ticker |-> FALSE]

VARIABLES
    subs,               \* the closures created by listen* calls, in call order
    socks,              \* every WebSocket constructed, in construction order
    ws,                 \* this.ws / this.eventWs / this.orderbookWs (0 = null)
    shouldReconnect,    \* this.shouldReconnect*
    reconnectAttempts,  \* this.*reconnectAttempts
    reconnectTimer,     \* this.*reconnectTimer (0 = null)
    heartbeatTimer,     \* this.*heartbeatTimer (0 = null)
    ev,                 \* the step just taken
    calls,              \* the caller's callbacks invoked by the step just taken
    log,                \* the frames that arrived and the frames handed to the
                        \* data callback, each in order
    app,                \* the client outside its streaming channels
    conv                \* the conversion just applied

fields == <<ws, shouldReconnect, reconnectAttempts, reconnectTimer, heartbeatTimer>>
prog == <<subs, socks, ws, shouldReconnect, reconnectAttempts, reconnectTimer,
          heartbeatTimer>>
stream == <<subs, socks, ws, shouldReconnect, reconnectAttempts, reconnectTimer,
            heartbeatTimer, ev, calls, log>>
vars == <<subs, socks, ws, shouldReconnect, reconnectAttempts, reconnectTimer,
          heartbeatTimer, ev, calls, log, app, conv>>

Min(a, b) == IF a < b THEN a ELSE b

\* the exponent taken from the attempt number instead of attempt number - 1
DelayFromAttempt(n) == Min(BaseDelayMs * 2 ^ n, MaxDelayMs)

\* Math.min(1000 * Math.pow(2, attempts - 1), 30000)
Delay(n) == Min(BaseDelayMs * 2 ^ (n - 1), MaxDelayMs)

\* options?.reconnect ?? true
ReconnectOption(opt) == opt # "false"

\* the heartbeat armed whatever the option
HeartbeatEnabledAlways(opt) == TRUE

\* options?.reconnect !== false
HeartbeatEnabled(opt) == opt # "false"

\* the guard with its CONNECTING test left out
AlreadyOpen(c) == ws[c] # 0 /\ socks[ws[c]].rs = "OPEN"

\* the guard with its OPEN test left out
AlreadyConnecting(c) == ws[c] # 0 /\ socks[ws[c]].rs = "CONNECTING"

\* this.ws?.readyState === OPEN || this.ws?.readyState === CONNECTING
AlreadyConnected(c) == ws[c] # 0 /\ socks[ws[c]].rs \in Live

\* the retry test with <= for <
WillReconnectInclusive(c) ==
    shouldReconnect[c] /\ reconnectAttempts[c] <= maxReconnectAttempts

\* this.shouldReconnect && this.reconnectAttempts < this.maxReconnectAttempts
WillReconnect(c) == shouldReconnect[c] /\ reconnectAttempts[c] < maxReconnectAttempts

\* new WebSocket(wsUrl) with the handlers of closure a.  owner, rs, timer (the
\* timeout set by its onclose is pending) and hb (the interval set by its onopen
\* is armed) are program state; failed, everOpen and gen (the number of
\* consecutive reconnects of the closure that led to it without an open event)
\* are history.
NewSocket(a, g) ==
    [owner |-> a, rs |-> "CONNECTING", failed |-> FALSE, everOpen |-> FALSE,
     gen |-> g, timer |-> FALSE, hb |-> FALSE]

\* the history of transport i is kept only while a later step can still read
\* it: until it is Closed and its timeout has fired or was cleared
Tidy(sk, i) ==
    IF sk[i].rs = "CLOSED" /\ ~sk[i].timer
    THEN [sk EXCEPT ![i].failed = FALSE, ![i].everOpen = FALSE, ![i].gen = 0]
    ELSE sk

\* clearInterval(id): a no-op on an interval already cleared
ClearInterval(sk, h) ==
    IF h # 0 THEN [sk EXCEPT ![h].hb = FALSE] ELSE sk

\* clearTimeout(id): a no-op on a timeout that fired or was cleared
ClearTimeout(sk, t) ==
    IF t # 0 THEN Tidy([sk EXCEPT ![t].timer = FALSE], t) ELSE sk

\* WebSocket.close(): CONNECTING / OPEN become CLOSING, else nothing
WsClose(sk, w) ==
    IF w # 0 /\ sk[w].rs \in Live THEN [sk EXCEPT ![w].rs = "CLOSING"] ELSE sk

\* an error event is followed by the close event of its transport at once:
\* no error event is waiting for its close event / none but that of s
NoneFailing == \A s \in 1..Len(socks) : ~socks[s].failed
NoneFailingBut(s) == \A r \in 1..Len(socks) : socks[r].failed => r = s

\* the step just taken: its kind, the closure and transport it belongs to, the
\* transport it constructed (created), whether the closed transport had opened
\* and the delay of the reconnect it scheduled (close), whether the callback it
\* invoked called the closure's disposer (inner), whether the retry test held
\* when the close handler was entered (due), whether the interval the close
\* handler found in the channel's field was still armed when onDisconnect was
\* invoked (hbSeen), the frame it received (msg), the transport a heartbeat
\* tick sent its ping on (sent, 0 = none), whether an exception left the
\* handler (threw), whether the data callback it invoked threw (raised)
Event(k, a, s, cr) ==
    [kind |-> k, sub |-> a, sock |-> s, created |-> cr, opened |-> FALSE, delay |-> 0,
     inner |-> FALSE, due |-> FALSE, hbSeen |-> FALSE, msg |-> NoFrame,
     sent |-> 0, threw |-> FALSE, raised |-> FALSE]

\* an invocation of callback cb of closure a; arg is the value passed:
\* "data" (the parsed frame), "parseError" (what JSON.parse threw),
\* "message" (new Error(errorData.message)), "WebSocket error", "none"
Call(a, cb, arg) == [sub |-> a, cb |-> cb, arg |-> arg]

\* options?.onError?.(arg): nothing when the caller supplied no onError
OnErrorCall(a, arg) == IF subs[a].onError THEN <<Call(a, "onError", arg)>> ELSE <<>>

\* no frame recorded
NoLog == [in |-> <<>>, out |-> <<>>]

\* the closure's connect(), run on the transports sk
connect(a, c, sk, g, k, s, lim) ==
    IF AlreadyConnected(c)
    THEN /\ socks' = sk
         /\ ws' = ws
         /\ ev' = Event(k, a, s, 0)
    ELSE /\ Len(sk) < lim
         /\ socks' = Append(sk, NewSocket(a, g))
         /\ ws' = [ws EXCEPT ![c] = Len(sk) + 1]
         /\ ev' = Event(k, a, s, Len(sk) + 1)

\* what the disposer does to timers and transports when the channel's fields
\* hold the timeout rt, the interval ht and the transport w
Teardown(sk, rt, ht, w) == WsClose(ClearInterval(ClearTimeout(sk, rt), ht), w)

\* the fields a callback leaves behind: d = it called the disposer of closure a
SubsAfter(a, d) == IF d THEN [subs EXCEPT ![a].disposed = TRUE] ELSE subs
\* a disposer that clears the reconnect flag of every channel kind
FlagAfterAll(c, d) == IF d THEN [x \in Channels |-> FALSE] ELSE shouldReconnect
FlagAfter(c, d) == IF d THEN [shouldReconnect EXCEPT ![c] = FALSE] ELSE shouldReconnect
WsAfter(c, d) == IF d THEN [ws EXCEPT ![c] = 0] ELSE ws
TimerAfter(c, d) == IF d THEN [reconnectTimer EXCEPT ![c] = 0] ELSE reconnectTimer
SocksAfter(sk, c, ht, d) == IF d THEN Teardown(sk, reconnectTimer[c], ht, ws[c]) ELSE sk

\* no error raised; an error whose message is text, or text followed by the
\* name of the operation
NoError == [text |-> "none", of |-> "none"]
Error(text, m) == [text |-> text, of |-> m]

\* a client constructed without devFlags that has called no operation.
\* devFlags: options.devFlags was given; cached: infoCache has an entry for
\* the client's baseUrl; n: operations called; op, error: the last operation
\* and the error it raised; trace: what that operation signed, requested and
\* wrote, in order; effects: the same for all operations so far; flows: the
\* flow operations started, in call order
NoApp ==
    [devFlags |-> FALSE, cached |-> FALSE, n |-> 0, op |-> "none", error |-> NoError,
     trace |-> <<>>, effects |-> <<>>, flows |-> <<>>]

\* a bigint / the SyntaxError of BigInt(string)
Value(n) == [error |-> FALSE, value |-> n]
SyntaxError == [error |-> TRUE, value |-> 0]

\* no conversion applied.  fn: the function applied last ("input", "text" =
\* none yet, the arguments are chosen), q, p: the quantity or amount and the
\* precision, text: the string given or returned, as the sequence of its
\* characters, back: the bigint that the conversion of text returned, from:
\* where text came from ("text" = given, else the function that returned it)
NoConv ==
    [fn |-> "none", q |-> 0, p |-> 0, text |-> <<>>, back |-> Value(0), from |-> "none"]

Init ==
    /\ subs = <<>>
    /\ socks = <<>>
    /\ ws = [c \in Channels |-> 0]
    /\ shouldReconnect = [c \in Channels |-> FALSE]
    /\ reconnectAttempts = [c \in Channels |-> 0]
    /\ reconnectTimer = [c \in Channels |-> 0]
    /\ heartbeatTimer = [c \in Channels |-> 0]
    /\ ev = Event("init", 0, 0, 0)
    /\ calls = <<>>
    /\ log = NoLog
    /\ app = NoApp
    /\ conv = NoConv

\* listen / listenToKalshiEvent / listenToOrderbook; h: options.onError is
\* supplied
listen(c, opt, h, nsubs, lim) ==
    /\ Len(subs) < nsubs
    /\ NoneFailing
    /\ subs' = Append(subs, [chan |-> c, opt |-> opt, onError |-> h,
                             disposed |-> FALSE])
    /\ shouldReconnect' = [shouldReconnect EXCEPT ![c] = ReconnectOption(opt)]
    /\ reconnectAttempts' = [reconnectAttempts EXCEPT ![c] = 0]
    /\ connect(Len(subs) + 1, c, socks, 0, "listen", 0, lim)
    /\ UNCHANGED <<reconnectTimer, heartbeatTimer, log>>
    /\ calls' = <<>>

\* a listen* call made by the caller
Listen(c, opt, h, nsubs, lim) ==
    /\ listen(c, opt, h, nsubs, lim)
    /\ UNCHANGED <<app, conv>>

\* ws.onopen; d: onConnect calls the disposer
OnOpen(s, d) ==
    LET a == socks[s].owner
        c == subs[a].chan
        hb == HeartbeatEnabled(subs[a].opt)
        sk0 == [socks EXCEPT ![s].rs = "OPEN", ![s].everOpen = TRUE, ![s].gen = 0]
        sk1 == SocksAfter(sk0, c, heartbeatTimer[c], d)
    IN  /\ socks[s].rs = "CONNECTING"
        /\ NoneFailing
        /\ reconnectAttempts' = [reconnectAttempts EXCEPT ![c] = 0]
        /\ calls' = <<Call(a, "onConnect", "none")>>
        /\ subs' = SubsAfter(a, d)
        /\ shouldReconnect' = FlagAfter(c, d)
        /\ ws' = WsAfter(c, d)
        /\ reconnectTimer' = TimerAfter(c, d)
        /\ socks' = [sk1 EXCEPT ![s].hb = hb]
        /\ heartbeatTimer' = [heartbeatTimer EXCEPT
                                 ![c] = IF hb THEN s ELSE IF d THEN 0 ELSE @]
        /\ ev' = [Event("open", a, s, 0) EXCEPT !.inner = d]
        /\ UNCHANGED <<log, app, conv>>

\* data && typeof data === 'object'
IsObject(m) == m.json \in {"object", "array"}

\* the `in` test passing whatever the value holds
HasDiscriminatorAlways(c, m) == TRUE

\* 'type' in data / 'market_ticker' in data
HasDiscriminator(c, m) == IF c = "event" THEN m.ticker ELSE m.type # "absent"

\* the test with its 'pong' half left out
IsControlPingOnly(m) == m.type = "ping"

\* !(data.type !== 'ping' && data.type !== 'pong')
IsControl(m) == m.type \in {"ping", "pong"}

\* a catch block that swallows the error
CatchSilent(a) == <<>>

\* catch (error) { options?.onError?.(error as Error) }
CatchCalls(a) == OnErrorCall(a, "parseError")

\* the order-book branch without its orderbook_error case
OrderbookCallsNoError(a, m) ==
    IF m.type \in {"orderbook_snapshot", "orderbook_delta"}
    THEN <<Call(a, "onData", "data")>>
    ELSE <<>>

\* listenToOrderbook: what is done with an object that has a `type`
OrderbookCalls(a, m) ==
    IF m.type \in {"orderbook_snapshot", "orderbook_delta"}
    THEN <<Call(a, "onData", "data")>>
    ELSE IF m.type = "orderbook_error" THEN OnErrorCall(a, "message")
    ELSE <<>>

\* the handler without its try block: what the body raises leaves it
EscapesUncaught(raised) == raised

\* try { ... } catch (error) { ... }: nothing the body raises leaves the handler
Escapes(raised) == FALSE

\* JSON.parse(event.data) raises a SyntaxError
ParseRaises(m) == m.json = "invalid"

\* the frames handed to the data callback by the calls cs of a message event
Delivered(cs, s, m) ==
    [i \in 1..Len(SelectSeq(cs, LAMBDA x : x.cb = "onData")) |-> [sock |-> s, msg |-> m]]

\* the callbacks ws.onmessage makes for payload m on channel c
OnMessageCalls(a, c, m) ==
    IF m.json = "invalid" THEN CatchCalls(a)
    ELSE IF ~(IsObject(m) /\ HasDiscriminator(c, m)) THEN <<>>
    ELSE IF c = "evm"
         THEN IF ~IsControl(m) THEN <<Call(a, "onData", "data")>> ELSE <<>>
    ELSE IF c = "event" THEN <<Call(a, "onData", "data")>>
    ELSE OrderbookCalls(a, m)

\* the data callback is among the calls cs
HasData(cs) == \E i \in 1..Len(cs) : cs[i].cb = "onData"

\* an error thrown by the data callback swallowed by the catch block
ThrownCallsNone(a, cs, x) == <<>>

\* catch (error) { options?.onError?.(error as Error) } for what the data
\* callback threw (x: it throws)
ThrownCalls(a, cs, x) == IF x /\ HasData(cs) THEN OnErrorCall(a, "thrown") ELSE <<>>

\* ws.onmessage; d: the callback it invokes calls the disposer; x: the data
\* callback throws; the first depth frames of a run are recorded
OnMessage(s, m, d, x, depth) ==
    LET a == socks[s].owner
        c == subs[a].chan
        cs == OnMessageCalls(a, c, m)
    IN  /\ socks[s].rs = "OPEN"
        /\ NoneFailing
        /\ d => cs # <<>>
        /\ x => HasData(cs)
        /\ calls' = cs \o ThrownCalls(a, cs, x)
        /\ subs' = SubsAfter(a, d)
        /\ shouldReconnect' = FlagAfter(c, d)
        /\ ws' = WsAfter(c, d)
        /\ reconnectTimer' = TimerAfter(c, d)
        /\ socks' = SocksAfter(socks, c, heartbeatTimer[c], d)
        /\ heartbeatTimer' = [heartbeatTimer EXCEPT ![c] = IF d THEN 0 ELSE @]
        /\ ev' = [Event("message", a, s, 0) EXCEPT
                     !.inner = d, !.msg = m, !.raised = x,
                     !.threw = Escapes(ParseRaises(m) \/ x)]
        /\ log' = IF Len(log.in) < depth
                  THEN [in |-> Append(log.in, [sock |-> s, msg |-> m]),
                        out |-> log.out \o Delivered(cs, s, m)]
                  ELSE log
        /\ UNCHANGED <<reconnectAttempts, app, conv>>

\* an error event with a close() call added to the handler
ErrorEventClosing(sk, s) == WsClose([sk EXCEPT ![s].failed = TRUE], s)

\* what the error event itself does to the transports: nothing but the
\* history that its close event is due
ErrorEvent(sk, s) == [sk EXCEPT ![s].failed = TRUE]

\* ws.onerror; d: onError calls the disposer
OnError(s, d) ==
    LET a == socks[s].owner
        c == subs[a].chan
    IN  /\ socks[s].rs # "CLOSED"
        /\ NoneFailing
        /\ d => subs[a].onError
        /\ calls' = OnErrorCall(a, "WebSocket error")
        /\ subs' = SubsAfter(a, d)
        /\ shouldReconnect' = FlagAfter(c, d)
        /\ ws' = WsAfter(c, d)
        /\ reconnectTimer' = TimerAfter(c, d)
        /\ socks' = SocksAfter(ErrorEvent(socks, s), c, heartbeatTimer[c], d)
        /\ heartbeatTimer' = [heartbeatTimer EXCEPT ![c] = IF d THEN 0 ELSE @]
        /\ ev' = [Event("error", a, s, 0) EXCEPT !.inner = d]
        /\ UNCHANGED <<reconnectAttempts, log, app, conv>>

\* onclose with the heartbeat left armed until after onDisconnect
BeforeDisconnectNothing(sk, h) == sk

\* the statements of onclose that precede the onDisconnect call
BeforeDisconnect(sk, h) == ClearInterval(sk, h)

\* ws.onclose; d: onDisconnect calls the disposer
OnClose(s, d) ==
    LET a == socks[s].owner
        c == subs[a].chan
        sk1 == BeforeDisconnect([socks EXCEPT ![s].rs = "CLOSED"], heartbeatTimer[c])
        seen == heartbeatTimer[c] # 0 /\ sk1[heartbeatTimer[c]].hb
        sk2 == SocksAfter(sk1, c, 0, d)
        n == reconnectAttempts[c] + 1
    IN  /\ socks[s].rs # "CLOSED"
        /\ NoneFailingBut(s)
        /\ heartbeatTimer' = [heartbeatTimer EXCEPT ![c] = 0]
        /\ calls' = <<Call(a, "onDisconnect", "none")>>
        /\ UNCHANGED <<log, app, conv>>
        /\ subs' = SubsAfter(a, d)
        /\ shouldReconnect' = FlagAfter(c, d)
        /\ ws' = WsAfter(c, d)
        /\ IF ~d /\ WillReconnect(c)
           THEN /\ reconnectAttempts' = [reconnectAttempts EXCEPT ![c] = n]
                /\ reconnectTimer' = [reconnectTimer EXCEPT ![c] = s]
                /\ socks' = [sk2 EXCEPT ![s].timer = TRUE]
                /\ ev' = [Event("close", a, s, 0) EXCEPT
                             !.opened = socks[s].everOpen, !.delay = Delay(n),
                             !.due = TRUE, !.hbSeen = seen]
           ELSE /\ socks' = Tidy(sk2, s)
                /\ reconnectTimer' = TimerAfter(c, d)
                /\ UNCHANGED reconnectAttempts
                /\ ev' = [Event("close", a, s, 0) EXCEPT
                             !.opened = socks[s].everOpen, !.inner = d,
                             !.due = WillReconnect(c), !.hbSeen = seen]

\* the setTimeout callback of onclose: connect()
TimerFire(s, lim) ==
    LET a == socks[s].owner
    IN  /\ socks[s].timer
        /\ NoneFailing
        /\ connect(a, subs[a].chan, Tidy([socks EXCEPT ![s].timer = FALSE], s),
                   socks[s].gen + 1, "timer", s, lim)
        /\ calls' = <<>>
        /\ UNCHANGED <<subs, shouldReconnect, reconnectAttempts, reconnectTimer,
                       heartbeatTimer, log, app, conv>>

\* the ping sent on the transport of the closure that armed the interval
PingTargetOwn(c, s) == s

\* if (this.ws?.readyState === WebSocket.OPEN) this.ws.send(...): the transport
\* the tick of the interval armed by transport s sends on (0 = none)
PingTarget(c, s) == IF ws[c] # 0 /\ socks[ws[c]].rs = "OPEN" THEN ws[c] ELSE 0

\* WebSocket.send() raises InvalidStateError while CONNECTING
SendRaises(w) == w # 0 /\ socks[w].rs = "CONNECTING"

\* the setInterval callback of onopen
Tick(s) ==
    LET a == socks[s].owner
        c == subs[a].chan
        w == PingTarget(c, s)
    IN  /\ socks[s].hb
        /\ NoneFailing
        /\ ev' = [Event("tick", a, s, 0) EXCEPT !.sent = w, !.threw = SendRaises(w)]
        /\ calls' = <<>>
        /\ UNCHANGED <<prog, log, app, conv>>

\* the function listen* returns, called outside the handlers
Dispose(a) ==
    LET c == subs[a].chan
    IN  /\ NoneFailing
        /\ subs' = SubsAfter(a, TRUE)
        /\ shouldReconnect' = FlagAfter(c, TRUE)
        /\ reconnectTimer' = TimerAfter(c, TRUE)
        /\ heartbeatTimer' = [heartbeatTimer EXCEPT ![c] = 0]
        /\ socks' = SocksAfter(socks, c, heartbeatTimer[c], TRUE)
        /\ ws' = WsAfter(c, TRUE)
        /\ ev' = Event("dispose", a, 0, 0)
        /\ calls' = <<>>
        /\ UNCHANGED <<reconnectAttempts, log, app, conv>>

\* ds: what the caller's callbacks may do (TRUE = call the disposer);
\* frames: the payloads the server sends; hs: whether callers supply onError;
\* depth: the number of frames recorded in log; xs: whether data callbacks throw
NextOn(chans, nsubs, lim, ds, frames, hs, depth, xs) ==
    \/ \E c \in chans, opt \in Opts, h \in hs : Listen(c, opt, h, nsubs, lim)
    \/ \E s \in 1..Len(socks), d \in ds : OnOpen(s, d)
    \/ \E s \in 1..Len(socks), m \in frames, d \in ds, x \in xs :
           OnMessage(s, m, d, x, depth)
    \/ \E s \in 1..Len(socks), d \in ds : OnError(s, d)
    \/ \E s \in 1..Len(socks), d \in ds : OnClose(s, d)
    \/ \E s \in 1..Len(socks) : TimerFire(s, lim)
    \/ \E s \in 1..Len(socks) : Tick(s)
    \/ \E a \in 1..Len(subs) : Dispose(a)

\* callbacks that return without calling the disposer / callbacks of either kind
Passive == {FALSE}
Reentrant == BOOLEAN

\* callers that supply onError / callers of either kind
Handled == {TRUE}
Optional == BOOLEAN

\* data callbacks that return / data callbacks of either kind
Quiet == {FALSE}
Raising == BOOLEAN

\* one frame of each effect on every channel kind: a parse error, a dropped
\* frame, a delivered frame
SomeFrames ==
    {[json |-> "invalid", type |-> "absent", ticker |-> FALSE],
     [json |-> "object", type |-> "ping", ticker |-> FALSE],
     [json |-> "object", type |-> "orderbook_snapshot", ticker |-> TRUE]}

\* a client used on all three channel kinds
Next == NextOn(Channels, MaxSubs, MaxSocks, Passive, SomeFrames, Handled, 0, Quiet)
Spec == Init /\ [][Next]_vars

\* a client used on the account-event channel only
NextChannel == NextOn({"evm"}, MaxSubs, MaxChannelSocks, Passive, SomeFrames, Handled, 0, Quiet)
SpecChannel == Init /\ [][NextChannel]_vars

\* one subscription of the account-event channel through a long retry sequence
NextRetry == NextOn({"evm"}, MaxRetrySubs, MaxRetrySocks, Passive, SomeFrames, Handled, 0, Quiet)
SpecRetry == Init /\ [][NextRetry]_vars

\* the subscriptions of the account-event channel through a long retry sequence
NextRetryShared == NextOn({"evm"}, MaxSubs, MaxRetrySocks, Passive, SomeFrames, Handled, 0, Quiet)
SpecRetryShared == Init /\ [][NextRetryShared]_vars

\* one subscription of any channel kind receiving frames
NextFrames == NextOn(Channels, MaxFrameSubs, MaxFrameSocks, Passive, Payloads, Handled, 0, Quiet)
SpecFrames == Init /\ [][NextFrames]_vars

\* one subscription of any channel kind whose callbacks may call its disposer
NextCallback == NextOn(Channels, MaxCallbackSubs, MaxCallbackSocks, Reentrant, SomeFrames, Handled, 0, Quiet)
SpecCallback == Init /\ [][NextCallback]_vars

\* frames told apart by their types: three data frames and a control frame
OrderFrames ==
    {[json |-> "object", type |-> "orderbook_snapshot", ticker |-> TRUE],
     [json |-> "object", type |-> "orderbook_delta", ticker |-> TRUE],
     [json |-> "object", type |-> "order_filled", ticker |-> TRUE],
     [json |-> "object", type |-> "ping", ticker |-> FALSE]}

\* one subscription of any channel kind whose frames are recorded
NextOrder ==
    NextOn(Channels, MaxOrderSubs, MaxOrderSocks, Passive, OrderFrames, Handled,
           MaxOrderFrames, Quiet)
SpecOrder == Init /\ [][NextOrder]_vars

\* one subscription of any channel kind, with or without an onError callback
NextErrors == NextOn(Channels, MaxErrorSubs, MaxErrorSocks, Passive, Payloads, Optional, 0, Quiet)
SpecErrors == Init /\ [][NextErrors]_vars

\* one subscription of any channel kind whose data callback may throw and
\* whose callbacks may call its disposer
NextThrow ==
    NextOn(Channels, MaxThrowSubs, MaxThrowSocks, Reentrant, SomeFrames, Optional, 0,
           Raising)
SpecThrow == Init /\ [][NextThrow]_vars

\* ------------------------------------------------- developer operations

\* the operations that read or claim the fees of a developer account
DevRequests ==
    {"getDevAccountFees", "getDevAccountInfo", "getFeeClaimAuthorization",
     "getDevFeeClaimHistory"}
DevOps == DevRequests \cup {"claimDevFees"}

\* what the server answers to a request: data, an error, neither
Responses == {"data", "error", "nodata"}
\* the amount of a fee-claim authorization
Amounts == {0, 5}
\* what the wallet does with a contract write
Writes == {"sent", "rejected"}

\* the result of a step of an operation: the error it raised and what it did
Ok(es) == [error |-> NoError, trace |-> es]
Fail(text, m, es) == [error |-> Error(text, m), trace |-> es]

\* an operation without its devFlags test
DevFlagsMissingNever(flags) == FALSE

\* !this.devFlags
DevFlagsMissing(flags) == ~flags

\* signDevAuth
signDevAuth(flags) ==
    IF ~flags THEN Fail("devFlags not configured", "none", <<>>) ELSE Ok(<<"sign">>)

\* this.client.GET / POST and the tests of its result
Request(m, r, es) ==
    IF r = "error" THEN Fail("Failed to", m, Append(es, "http"))
    ELSE IF r = "nodata" THEN Fail("No data returned from", m, Append(es, "http"))
    ELSE Ok(Append(es, "http"))

\* getDevAccountFees, getDevAccountInfo, getFeeClaimAuthorization,
\* getDevFeeClaimHistory
DevRequest(flags, m, r) ==
    IF DevFlagsMissing(flags) THEN Fail("devFlags required for", m, <<>>)
    ELSE LET a == signDevAuth(flags)
         IN  IF a.error # NoError THEN a ELSE Request(m, r, a.trace)

\* getChainInfo: on a miss getInfo() is called and, unless it raises, its
\* result is put in infoCache
getChainInfo(cached, r) == IF cached THEN Ok(<<>>) ELSE Request("getInfo", r, <<>>)

\* infoCache.has(this.baseUrl) after getChainInfo
CachedAfter(cached, r) == cached \/ r = "data"

\* the result of an operation with the state of infoCache it leaves
With(res, c) == [error |-> res.error, trace |-> res.trace, cached |-> c]

\* claimDevFees; r, amount: the answer to the authorization request, ri: the
\* answer to GET /info, w: the outcome of writeContract
claimDevFees(flags, cached, r, amount, ri, w) ==
    IF DevFlagsMissing(flags)
    THEN With(Fail("devFlags required for", "claimDevFees", <<>>), cached)
    ELSE LET a == DevRequest(flags, "getFeeClaimAuthorization", r)
             i == getChainInfo(cached, ri)
             c == CachedAfter(cached, ri)
         IN  IF a.error # NoError THEN With(a, cached)
             ELSE IF amount = 0
                  THEN With(Fail("No unclaimed fees available", "none", a.trace), cached)
             ELSE IF i.error # NoError
                  THEN With([error |-> i.error, trace |-> a.trace \o i.trace], c)
             ELSE IF w = "rejected"
                  THEN With(Fail("writeContract", "rejected",
                                 a.trace \o i.trace \o <<"write">>), c)
             ELSE With(Ok(a.trace \o i.trace \o <<"write", "receipt">>), c)

\* a call of developer operation m
DevCall(m, r, amount, ri, w) ==
    LET res == IF m = "claimDevFees"
               THEN claimDevFees(app.devFlags, app.cached, r, amount, ri, w)
               ELSE With(DevRequest(app.devFlags, m, r), app.cached)
    IN  /\ app.n < MaxDevCalls
        /\ app' = [app EXCEPT
                       !.n = @ + 1, !.op = m, !.error = res.error,
                       !.trace = res.trace, !.effects = @ \o res.trace,
                       !.cached = res.cached]
        /\ UNCHANGED <<stream, conv>>

\* a client constructed with or without devFlags
InitDev ==
    /\ subs = <<>>
    /\ socks = <<>>
    /\ ws = [c \in Channels |-> 0]
    /\ shouldReconnect = [c \in Channels |-> FALSE]
    /\ reconnectAttempts = [c \in Channels |-> 0]
    /\ reconnectTimer = [c \in Channels |-> 0]
    /\ heartbeatTimer = [c \in Channels |-> 0]
    /\ ev = Event("init", 0, 0, 0)
    /\ calls = <<>>
    /\ log = NoLog
    /\ app \in {[NoApp EXCEPT !.devFlags = f] : f \in BOOLEAN}
    /\ conv = NoConv

NextDev ==
    \E m \in DevOps, r \in Responses, amount \in Amounts, ri \in Responses, w \in Writes :
        DevCall(m, r, amount, ri, w)
SpecDev == InitDev /\ [][NextDev]_vars

\* ------------------------------------------------------ flow operations

\* the operations that await chain info and sign, request or write
OrderFlows == {"executeBuyFlow", "executeSellFlow"}
FlowOps == OrderFlows \cup {"executeDepositFlow", "claimWithdraw", "claimDevFees"}

\* what an awaited call resolves to: "fail" is a rejection; readContract
\* returns an allowance below the amount or not; an authorization is for a
\* zero amount or not
Outcomes(call) ==
    IF call = "readContract" THEN {"below", "enough", "fail"}
    ELSE IF call \in {"getWithdrawAuthorization", "getFeeClaimAuthorization"}
         THEN {"ok", "zero", "fail"}
    ELSE {"ok", "fail"}

\* executeDepositFlow approving whatever the allowance
AfterAllowanceAlways(o) == "approve"

\* if (allowance < usdcAmount) { approve ... } depositUSDC
AfterAllowance(o) == IF o = "below" THEN "approve" ELSE "depositUSDC"

\* a claim without its test of the amount
AfterAuthorizationAny(op, o) ==
    IF op = "claimWithdraw" THEN "withdrawUSDC" ELSE "getChainInfo"

\* if (maxWithdrawAmount === 0) throw / if (amount === 0) throw
AfterAuthorization(op, o) ==
    IF o = "zero" THEN "throw"
    ELSE IF op = "claimWithdraw" THEN "withdrawUSDC" ELSE "getChainInfo"

\* a buy or sell flow subscribing as soon as the order is signed
AfterSignatureListen == "listen"

\* placeOrder follows signTypedData
AfterSignature == "placeOrder"

\* the call that follows the awaited call once it resolved to o; "throw": the
\* rejection propagates to the caller, "return": the operation returns
Following(op, call, o) ==
    IF o = "fail" THEN "throw"
    ELSE IF call = "getChainInfo"
         THEN IF op \in OrderFlows THEN "signTypedData"
              ELSE IF op = "executeDepositFlow" THEN "readContract"
              ELSE IF op = "claimWithdraw" THEN "getWithdrawAuthorization"
              ELSE "withdrawUSDC"
    ELSE IF call = "signTypedData" THEN AfterSignature
    ELSE IF call = "placeOrder" THEN "listen"
    ELSE IF call = "readContract" THEN AfterAllowance(o)
    ELSE IF call = "approve" THEN "approveReceipt"
    ELSE IF call = "approveReceipt" THEN "depositUSDC"
    ELSE IF call \in {"depositUSDC", "withdrawUSDC"} THEN "receipt"
    ELSE IF call \in {"getWithdrawAuthorization", "getFeeClaimAuthorization"}
         THEN AfterAuthorization(op, o)
    ELSE "return"

\* the error an operation raises when the awaited call resolved to o
FlowError(op, call, o) ==
    IF o = "fail" THEN Error("rejected", call)
    ELSE IF op = "claimWithdraw" THEN Error("No unclaimed withdrawals available", "none")
    ELSE Error("No unclaimed fees available", "none")

\* getChainInfo issues GET /info only when infoCache has no entry
Entered(op, call, cached) ==
    IF call = "getChainInfo" /\ cached THEN Following(op, "getChainInfo", "ok") ELSE call

\* the flow after it went on to `call`: the call is recorded in its trace; it
\* waits for the call's result unless the call is listen, which returns at once
Proceed(flow, call, err) ==
    IF call = "throw" THEN [flow EXCEPT !.pc = "throw", !.error = err]
    ELSE IF call = "return" THEN [flow EXCEPT !.pc = "return"]
    ELSE IF call = "listen"
         THEN [flow EXCEPT !.pc = "return", !.trace = Append(@, "listen"),
                           !.sub = Len(subs) + 1]
    ELSE IF call = "getChainInfo"
         THEN [flow EXCEPT !.pc = call, !.trace = Append(@, "getInfo")]
    ELSE [flow EXCEPT !.pc = call, !.trace = Append(@, call)]

\* a flow operation is called and runs to its first await
Start(op, n) ==
    LET first == IF op # "claimDevFees" THEN "getChainInfo"
                 ELSE IF DevFlagsMissing(app.devFlags) THEN "throw"
                 ELSE "getFeeClaimAuthorization"
        flow == [op |-> op, pc |-> "start", trace |-> <<>>, results |-> <<>>,
                 error |-> NoError, sub |-> 0]
    IN  /\ Len(app.flows) < n
        /\ app' = [app EXCEPT
                       !.flows = Append(@, Proceed(flow, Entered(op, first, app.cached),
                                                   Error("devFlags required for", op)))]
        /\ UNCHANGED <<stream, conv>>

\* the call flow f awaits resolves to o and the flow runs to its next await;
\* h: the caller of a buy or sell flow supplied onError. results: what the
\* calls of the trace resolved to, in order
Resume(f, o, h, nsubs, lim) ==
    LET flow == [app.flows[f] EXCEPT !.results = Append(@, o)]
        next == Entered(flow.op, Following(flow.op, flow.pc, o),
                        app.cached \/ (flow.pc = "getChainInfo" /\ o = "ok"))
    IN  /\ flow.pc \notin {"return", "throw"}
        /\ o \in Outcomes(flow.pc)
        /\ app' = [app EXCEPT
                       !.cached = @ \/ (flow.pc = "getChainInfo" /\ o = "ok"),
                       !.flows[f] = Proceed(flow, next, FlowError(flow.op, flow.pc, o))]
        /\ IF next = "listen"
           THEN listen("evm", "true", h, nsubs, lim)
           ELSE UNCHANGED stream
        /\ UNCHANGED conv

FlowOutcomes == {"ok", "fail", "zero", "below", "enough"}

NextFlowsOn(ops, n, nsubs, lim) ==
    \/ \E op \in ops : Start(op, n)
    \/ \E f \in 1..Len(app.flows), o \in FlowOutcomes, h \in BOOLEAN :
           Resume(f, o, h, nsubs, lim)

\* flow operations of every kind running concurrently
NextFlows == NextFlowsOn(FlowOps, MaxFlows, MaxFlowSubs, MaxFlowSocks)
SpecFlows == InitDev /\ [][NextFlows]_vars

\* buy and sell flows with the events of the transports that their listen
\* calls open and the calls of the disposers they return
NextTrade ==
    \/ NextFlowsOn(OrderFlows, MaxTradeFlows, MaxTradeSubs, MaxTradeSocks)
    \/ \E s \in 1..Len(socks) : OnOpen(s, FALSE)
    \/ \E s \in 1..Len(socks), m \in SomeFrames : OnMessage(s, m, FALSE, FALSE, 0)
    \/ \E s \in 1..Len(socks) : OnError(s, FALSE)
    \/ \E s \in 1..Len(socks) : OnClose(s, FALSE)
    \/ \E s \in 1..Len(socks) : TimerFire(s, MaxTradeSocks)
    \/ \E s \in 1..Len(socks) : Tick(s)
    \/ \E a \in 1..Len(subs) : Dispose(a)
SpecTrade == Init /\ [][NextTrade]_vars

\* ------------------------------------------------ fixed-point conversion

\* the contract precisions: 0-2 decimal places
Precisions == 0..2

Digits == <<"0", "1", "2", "3", "4", "5", "6", "7", "8", "9">>

\* bigint / and %: the quotient is truncated toward zero and the remainder has
\* the sign of the dividend
Quot(a, b) == IF a >= 0 THEN a \div b ELSE -((-a) \div b)
Rem(a, b) == a - b * Quot(a, b)

\* the decimal digits of n >= 0
RECURSIVE DigitsOf(_)
DigitsOf(n) ==
    IF n < 10 THEN <<Digits[n + 1]>> ELSE Append(DigitsOf(n \div 10), Digits[(n % 10) + 1])

\* bigint.toString()
toString(n) == IF n < 0 THEN <<"-">> \o DigitsOf(-n) ELSE DigitsOf(n)

\* n copies of "0"
Zeros(n) == [i \in 1..n |-> "0"]

\* str.padStart(n, '0') / str.padEnd(n, '0')
PadStart(str, n) == IF Len(str) >= n THEN str ELSE Zeros(n - Len(str)) \o str
PadEnd(str, n) == IF Len(str) >= n THEN str ELSE str \o Zeros(n - Len(str))

\* the characters of str are decimal digits
IsDigits(str) == \A i \in 1..Len(str) : \E d \in 1..10 : str[i] = Digits[d]

\* the number a sequence of decimal digits denotes
RECURSIVE ValueOf(_)
ValueOf(str) ==
    IF str = <<>> THEN 0
    ELSE 10 * ValueOf(SubSeq(str, 1, Len(str) - 1))
             + (CHOOSE d \in 0..9 : Digits[d + 1] = str[Len(str)])

\* BigInt(str): the empty string is 0n, a minus sign may precede the digits
BigInt(str) ==
    IF str = <<>> THEN Value(0)
    ELSE IF IsDigits(str) THEN Value(ValueOf(str))
    ELSE IF str[1] = "-" /\ Len(str) > 1 /\ IsDigits(Tail(str))
         THEN Value(-ValueOf(Tail(str)))
    ELSE SyntaxError

\* str.trim()
RECURSIVE Trim(_)
Trim(str) ==
    IF str # <<>> /\ str[1] = " " THEN Trim(Tail(str))
    ELSE IF str # <<>> /\ str[Len(str)] = " " THEN Trim(SubSeq(str, 1, Len(str) - 1))
    ELSE str

\* str.split('.')
RECURSIVE Split(_)
Split(str) ==
    IF \E i \in 1..Len(str) : str[i] = "."
    THEN LET dot == CHOOSE i \in 1..Len(str) :
                        str[i] = "." /\ \A j \in 1..(i - 1) : str[j] # "."
         IN  <<SubSeq(str, 1, dot - 1)>> \o Split(SubSeq(str, dot + 1, Len(str)))
    ELSE <<str>>

\* str.slice(0, n)
Slice(str, n) == SubSeq(str, 1, Min(n, Len(str)))

\* fixedPointToQuantity with the fractional digits rounded to the precision
fixedPointToQuantityRounding(fixedPoint, precision) ==
    LET parts == Split(Trim(fixedPoint))
        fractionalPart == IF Len(parts) >= 2 THEN parts[2] ELSE <<"0">>
        w == BigInt(parts[1])
        f == BigInt(PadEnd(Slice(fractionalPart, precision), precision))
        up == /\ Len(fractionalPart) > precision
              /\ fractionalPart[precision + 1] \in {"5", "6", "7", "8", "9"}
    IN  IF w.error \/ f.error THEN SyntaxError
        ELSE Value(w.value * 10 ^ precision + f.value + (IF up THEN 1 ELSE 0))

\* fixedPointToQuantity(fixedPoint, precision)
fixedPointToQuantity(fixedPoint, precision) ==
    LET trimmed == Trim(fixedPoint)
        parts == Split(trimmed)
        wholePart == parts[1]
        fractionalPart == IF Len(parts) >= 2 THEN parts[2] ELSE <<"0">>
        multiplier == 10 ^ precision
        truncatedFractional == PadEnd(Slice(fractionalPart, precision), precision)
        w == BigInt(wholePart)
        f == BigInt(truncatedFractional)
    IN  IF w.error \/ f.error THEN SyntaxError
        ELSE Value(w.value * multiplier + f.value)

\* the fractional parts and the fixed-point strings given to
\* fixedPointToQuantity: a whole number, with or without a point and up to
\* three fractional digits, with or without blanks around it
FracDigits == {"0", "5", "9"}
Fractions ==
    UNION {[1..n -> FracDigits] : n \in 1..3}
DecimalTexts ==
    {toString(w) : w \in 0..MaxWhole}
        \cup {toString(w) \o <<".">> \o f : w \in 0..MaxWhole, f \in Fractions}
FixedPointTexts == DecimalTexts \cup {<<" ">> \o s \o <<" ">> : s \in DecimalTexts}

\* quantityToFixedPoint(quantity, precision)
quantityToFixedPoint(quantity, precision) ==
    LET divisor == 10 ^ precision
        wholePart == Quot(quantity, divisor)
        fractionalPart == Rem(quantity, divisor)
        fractionalStr == PadStart(toString(fractionalPart), precision)
        paddedFractional == PadEnd(fractionalStr, 2)
    IN  toString(wholePart) \o <<".">> \o paddedFractional

\* the arguments of a conversion, quantities of either sign
InitFixed ==
    /\ subs = <<>>
    /\ socks = <<>>
    /\ ws = [c \in Channels |-> 0]
    /\ shouldReconnect = [c \in Channels |-> FALSE]
    /\ reconnectAttempts = [c \in Channels |-> 0]
    /\ reconnectTimer = [c \in Channels |-> 0]
    /\ heartbeatTimer = [c \in Channels |-> 0]
    /\ ev = Event("init", 0, 0, 0)
    /\ calls = <<>>
    /\ log = NoLog
    /\ app = NoApp
    /\ conv \in [fn : {"input"}, q : -MaxQuantity..MaxQuantity, p : Precisions,
                  text : {<<>>}, back : {Value(0)}, from : {"none"}]
                 \cup [fn : {"text"}, q : {0}, p : Precisions, text : FixedPointTexts,
                       back : {Value(0)}, from : {"none"}]

\* a call of quantityToFixedPoint
ToFixedPoint ==
    /\ conv.fn = "input"
    /\ conv' = [conv EXCEPT !.fn = "quantityToFixedPoint",
                            !.text = quantityToFixedPoint(conv.q, conv.p)]
    /\ UNCHANGED <<stream, app>>

\* a call of fixedPointToQuantity on a given string or on the string that
\* quantityToFixedPoint returned
FromFixedPoint ==
    /\ conv.fn \in {"text", "quantityToFixedPoint"}
    /\ conv' = [conv EXCEPT !.fn = "fixedPointToQuantity", !.from = conv.fn,
                            !.back = fixedPointToQuantity(conv.text, conv.p)]
    /\ UNCHANGED <<stream, app>>

NextFixed == ToFixedPoint \/ FromFixedPoint
SpecFixed == InitFixed /\ [][NextFixed]_vars

\* ---------------------------------------------------- USDC conversion

\* 1 USDC = 1,000,000 micro-USDC
UusdcPerUsdc == 1000000
UusdcDigits == 6

\* uusdcToUsdc(uusdc) for a bigint
uusdcToUsdc(amount) ==
    LET wholePart == Quot(amount, UusdcPerUsdc)
        decimalPart == PadStart(toString(Rem(amount, UusdcPerUsdc)), UusdcDigits)
    IN  toString(wholePart) \o <<".">> \o decimalPart

\* usdcToUusdc(usdc) for a string
usdcToUusdc(usdc) ==
    LET parts == Split(usdc)
        wholePart == BigInt(parts[1])
        decimalPart == Slice(PadEnd(parts[2], UusdcDigits), UusdcDigits)
        d == BigInt(decimalPart)
    IN  IF wholePart.error THEN SyntaxError
        ELSE IF Len(parts) = 1 THEN Value(wholePart.value * UusdcPerUsdc)
        ELSE IF d.error THEN SyntaxError
        ELSE Value(wholePart.value * UusdcPerUsdc + d.value)

\* amounts of either sign (PnL fields are signed) around the multiples of
\* half a USDC
UusdcAmounts ==
    {h * (UusdcPerUsdc \div 2) + f :
         h \in -MaxHalves..MaxHalves, f \in -MaxQuantity..MaxQuantity}

\* the argument of a conversion: an amount or a decimal string
InitUsdc ==
    /\ subs = <<>>
    /\ socks = <<>>
    /\ ws = [c \in Channels |-> 0]
    /\ shouldReconnect = [c \in Channels |-> FALSE]
    /\ reconnectAttempts = [c \in Channels |-> 0]
    /\ reconnectTimer = [c \in Channels |-> 0]
    /\ heartbeatTimer = [c \in Channels |-> 0]
    /\ ev = Event("init", 0, 0, 0)
    /\ calls = <<>>
    /\ log = NoLog
    /\ app = NoApp
    /\ conv \in [fn : {"input"}, q : UusdcAmounts, p : {UusdcDigits}, text : {<<>>},
                  back : {Value(0)}, from : {"none"}]
                 \cup [fn : {"text"}, q : {0}, p : {UusdcDigits}, text : DecimalTexts,
                       back : {Value(0)}, from : {"none"}]

\* a call of uusdcToUsdc
ToUsdc ==
    /\ conv.fn = "input"
    /\ conv' = [conv EXCEPT !.fn = "uusdcToUsdc", !.text = uusdcToUsdc(conv.q)]
    /\ UNCHANGED <<stream, app>>

\* a call of usdcToUusdc on a given string or on the string that uusdcToUsdc
\* returned
ToUusdc ==
    /\ conv.fn \in {"text", "uusdcToUsdc"}
    /\ conv' = [conv EXCEPT !.fn = "usdcToUusdc", !.from = conv.fn,
                            !.back = usdcToUusdc(conv.text)]
    /\ UNCHANGED <<stream, app>>

NextUsdc == ToUsdc \/ ToUusdc
SpecUsdc == InitUsdc /\ [][NextUsdc]_vars

\* ------------------------------------------------------------------ claims

ChanOf(a) == subs[a].chan
Subs == 1..Len(subs)
Socks == 1..Len(socks)

\* C1 (as claimed): once the disposer of a subscription has returned, none of
\* that subscription's callbacks (onEvent/onTicker/onUpdate, onError, onConnect,
\* onDisconnect) is invoked again.  A dispose step invokes no callback, so a
\* callback of a disposed subscription in the step just taken came after it.
C1_PostDisposeSilence ==
    \A i \in 1..Len(calls) : ~subs[calls[i].sub].disposed

\* C2 (as claimed): once the disposer of a subscription has been called, no
\* transport is ever created again with that subscription's URL and handlers.
C2_DisposedNeverReconnects ==
    ev.created # 0 => ~subs[ev.sub].disposed

\* C3 (as claimed): a second call of a subscription's disposer, at any later
\* point, closes no transport, clears no timer and leaves every state variable
\* of the program unchanged.
C3_DisposeIdempotent ==
    [][\A a \in Subs :
          (subs[a].disposed /\ ev'.kind = "dispose" /\ ev'.sub = a)
              => UNCHANGED prog]_vars

\* C4 (as claimed): every listen* call is independent: it gets a transport of
\* its own, and a step of one subscription (its listen call, its disposer)
\* neither closes a transport nor clears a timer of another subscription, nor
\* changes the attempt counter or the reconnect flag another subscription of the
\* same channel is running with.
C4_ListenIndependent ==
    [][/\ ev'.kind = "listen" => ev'.created # 0
       /\ ev'.kind \in {"listen", "dispose"} =>
            /\ \A s \in Socks : socks[s].owner # ev'.sub => socks'[s] = socks[s]
            /\ \A b \in Subs :
                  (b # ev'.sub /\ ~subs[b].disposed) =>
                      /\ reconnectAttempts'[ChanOf(b)] = reconnectAttempts[ChanOf(b)]
                      /\ shouldReconnect'[ChanOf(b)] = shouldReconnect[ChanOf(b)]]_vars

\* C5 (as claimed): a subscription that is not disposed makes at most 5
\* consecutive reconnect attempts without an open event in between, and the
\* close of the 5th such attempt schedules no reconnect timer.
C5_RetryCap ==
    \A s \in Socks :
        ~subs[socks[s].owner].disposed =>
            /\ socks[s].gen <= maxReconnectAttempts
            /\ socks[s].timer => socks[s].gen < maxReconnectAttempts

\* C6 (as claimed): the close event of a transport that had opened, of a
\* subscription that is not disposed, schedules its reconnect, if it schedules
\* one, with delay(1) = 1000 ms, whatever number of failed attempts preceded
\* the open event.
C6_OpenResetsCounter ==
    (ev.kind = "close" /\ ev.opened /\ ev.delay # 0 /\ ~subs[ev.sub].disposed)
        => ev.delay = 1000

\* the delays the backoff law names for attempts 1..6
DelayTable == <<1000, 2000, 4000, 8000, 16000, 30000>>

\* C7: the delay of the reconnect a close event schedules is
\* min(1000 * 2^(n-1), 30000) ms for the attempt number n the counter then shows
\* (1000, 2000, 4000, 8000, 16000 for n = 1..5); the law gives 30000 for n = 6,
\* is non-decreasing in n and never exceeds 30000.
C7_BackoffLaw ==
    /\ (ev.kind = "close" /\ ev.delay # 0) =>
          /\ reconnectAttempts[ChanOf(ev.sub)] \in 1..maxReconnectAttempts
          /\ ev.delay = DelayTable[reconnectAttempts[ChanOf(ev.sub)]]
    /\ \A n \in 1..Len(DelayTable) : Delay(n) = DelayTable[n]
    /\ \A n \in 1..Len(DelayTable) : Delay(n) <= Delay(n + 1) /\ Delay(n) <= 30000

\* C7 witness: a close event has scheduled the fifth reconnect, 16000 ms ahead
C7_Witness == ev.kind = "close" /\ ev.delay = 16000

\* C8: each channel's attempt counter is an integer in 0..5; it changes only
\* in a listen* call (to 0), an open event (to 0) and a close event that
\* schedules a reconnect (by exactly +1).
C8_AttemptCounter ==
    /\ [](\A c \in Channels : reconnectAttempts[c] \in 0..5)
    /\ [][\A c \in Channels :
            reconnectAttempts'[c] # reconnectAttempts[c] =>
                /\ subs'[ev'.sub].chan = c
                /\ \/ ev'.kind \in {"listen", "open"} /\ reconnectAttempts'[c] = 0
                   \/ /\ ev'.kind = "close"
                      /\ reconnectAttempts'[c] = reconnectAttempts[c] + 1
                      /\ socks'[ev'.sock].timer
                      /\ reconnectTimer'[c] = ev'.sock]_vars

\* C8 witness: five reconnects were scheduled in a row and the counter is at
\* its maximum
C8_Witness == ev.kind = "close" /\ reconnectAttempts[ChanOf(ev.sub)] = 5

LiveOf(c) == {s \in Socks : ChanOf(socks[s].owner) = c /\ socks[s].rs \in Live}

\* C9: at most one transport per channel, hence per subscription handle, is
\* Connecting or Open; and when a reconnect timer creates a transport, every
\* earlier transport of that handle is Closed.
C9_OneLiveSession ==
    /\ \A c \in Channels : Cardinality(LiveOf(c)) <= 1
    /\ \A a \in Subs :
          Cardinality({s \in Socks : socks[s].owner = a /\ socks[s].rs \in Live}) <= 1
    /\ (ev.kind = "timer" /\ ev.created # 0) =>
          \A s \in Socks :
              (socks[s].owner = ev.sub /\ s # ev.created) => socks[s].rs = "CLOSED"

\* C9 witness: a reconnect timer has created the second transport of a handle
C9_Witness ==
    /\ ev.kind = "timer"
    /\ ev.created # 0
    /\ \E s \in Socks : s # ev.created /\ socks[s].owner = ev.sub

\* the channel's current transport is Connecting or Open
CurrentIsLive(c) == ws[c] # 0 /\ socks[ws[c]].rs \in {"CONNECTING", "OPEN"}

\* C10: when connect() runs (in a listen* call or when a reconnect timer
\* fires) while the channel's current transport is Connecting or Open, it
\* constructs no transport and changes no transport, reference or timer; the
\* timer step changes nothing but the timer that fired.
C10_DuplicateOpenGuard ==
    [][(/\ ev'.kind \in {"listen", "timer"}
        /\ \E c \in Channels : subs'[ev'.sub].chan = c /\ CurrentIsLive(c)) =>
          /\ ev'.created = 0
          /\ Len(socks') = Len(socks)
          /\ ws' = ws
          /\ reconnectTimer' = reconnectTimer
          /\ heartbeatTimer' = heartbeatTimer
          /\ \A s \in Socks :
                /\ socks'[s].rs = socks[s].rs
                /\ socks'[s].hb = socks[s].hb
                /\ s # ev'.sock => socks'[s].timer = socks[s].timer
          /\ ev'.kind = "timer" =>
                /\ shouldReconnect' = shouldReconnect
                /\ reconnectAttempts' = reconnectAttempts]_vars

\* C10 witness: a reconnect timer has fired while the channel's current
\* transport was Connecting or Open
C10_Witness ==
    /\ ev.kind = "timer"
    /\ ev.created = 0
    /\ CurrentIsLive(ChanOf(ev.sub))

\* C11 (as claimed): whenever a heartbeat interval is armed, the current
\* transport of its channel is Open and the subscription that armed it is not
\* disposed (so none is armed while Connecting, Closing, Closed or after
\* dispose).
C11_HeartbeatOnlyWhileOpen ==
    \A s \in Socks :
        socks[s].hb =>
            /\ ws[ChanOf(socks[s].owner)] # 0
            /\ socks[ws[ChanOf(socks[s].owner)]].rs = "OPEN"
            /\ ~subs[socks[s].owner].disposed

\* C12 (as claimed): every Open transport of a subscription with heartbeats
\* enabled has its heartbeat interval armed, and every armed interval is the
\* one the channel's field refers to (none is overwritten while armed).
C12_OneHeartbeatPerSession ==
    \A s \in Socks :
        /\ (socks[s].rs = "OPEN" /\ HeartbeatEnabled(subs[socks[s].owner].opt))
              => socks[s].hb
        /\ socks[s].hb => heartbeatTimer[ChanOf(socks[s].owner)] = s

\* C13: in every close event the heartbeat interval found in the channel's
\* field is cleared and the field nulled before onDisconnect is invoked, so
\* onDisconnect never runs while that interval is armed; and when onDisconnect
\* calls the disposer, the reconnect decision that follows schedules nothing:
\* no timer is pending for the channel and the attempt counter is unchanged.
C13_CloseOrder ==
    /\ [](ev.kind = "close" =>
            /\ ~ev.hbSeen
            /\ heartbeatTimer[ChanOf(ev.sub)] = 0
            /\ calls = <<Call(ev.sub, "onDisconnect", "none")>>
            /\ ev.inner =>
                  /\ ev.delay = 0
                  /\ ~socks[ev.sock].timer
                  /\ reconnectTimer[ChanOf(ev.sub)] = 0
                  /\ ~shouldReconnect[ChanOf(ev.sub)])
    /\ [][(ev'.kind = "close" /\ ev'.inner) =>
             reconnectAttempts' = reconnectAttempts]_vars

\* C13 witness: onDisconnect called the disposer in a close event that would
\* otherwise have scheduled a reconnect, after the transport had opened
C13_Witness == ev.kind = "close" /\ ev.inner /\ ev.due /\ ev.opened

\* C14 (as claimed): when a callback has called the disposer, then once the
\* handler that invoked the callback has returned the subscription has no armed
\* heartbeat interval, no pending reconnect timer and no current transport.
C14_DisposeInsideCallback ==
    ev.inner =>
        /\ \A s \in Socks :
              socks[s].owner = ev.sub => ~socks[s].hb /\ ~socks[s].timer
        /\ ws[ChanOf(ev.sub)] = 0
        /\ heartbeatTimer[ChanOf(ev.sub)] = 0
        /\ reconnectTimer[ChanOf(ev.sub)] = 0

\* the step just taken received a frame that parsed to an object whose `type`
\* is "ping" or "pong"
ControlFrame ==
    ev.kind = "message" /\ ev.msg.json = "object" /\ ev.msg.type \in {"ping", "pong"}

\* C15 (as claimed): on each of the three channels a frame whose `type` is
\* "ping" or "pong" invokes no callback, whatever other fields it carries.
C15_ControlNeverSurfaced == ControlFrame => calls = <<>>

\* C15 (amended): a frame whose `type` is "ping" or "pong" invokes no callback
\* on the account-event and order-book channels, and none on the ticker
\* channel unless it carries `market_ticker`; on every channel the handler
\* changes no state.
C15_ControlAbsorbed ==
    /\ []((ControlFrame /\ ~(ChanOf(ev.sub) = "event" /\ ev.msg.ticker))
             => calls = <<>>)
    /\ [][(/\ ev'.kind = "message"
           /\ ev'.msg.json = "object"
           /\ ev'.msg.type \in {"ping", "pong"}) => UNCHANGED prog]_vars

\* C15 witness: a pong that carries other fields has arrived on the
\* account-event channel
C15_Witness ==
    ControlFrame /\ ev.msg.type = "pong" /\ ev.msg.ticker /\ ChanOf(ev.sub) = "evm"

\* C16 (as claimed): a frame that parses to an object carrying the channel's
\* discriminator, whose `type` is neither "ping" nor "pong" where `type` is the
\* discriminator, and which is not an orderbook_error frame of the order-book
\* channel, invokes the data callback exactly once and nothing else.
C16_DataDelivery ==
    (/\ ev.kind = "message"
     /\ ev.msg.json = "object"
     /\ IF ChanOf(ev.sub) = "event"
        THEN ev.msg.ticker
        ELSE ev.msg.type \notin {"absent", "ping", "pong"}
     /\ ~(ChanOf(ev.sub) = "orderbook" /\ ev.msg.type = "orderbook_error"))
        => calls = <<Call(ev.sub, "onData", "data")>>

\* C17: a payload that is not valid JSON invokes onError once, with the parse
\* error, and no data callback; the handler changes no state (no transport,
\* timer, counter or flag), and the transport stays Open so later frames are
\* still received.
C17_ParseError ==
    /\ []((ev.kind = "message" /\ ev.msg.json = "invalid") =>
            /\ calls = <<Call(ev.sub, "onError", "parseError")>>
            /\ socks[ev.sock].rs = "OPEN"
            /\ ~socks[ev.sock].failed /\ ~socks[ev.sock].timer)
    /\ [][(ev'.kind = "message" /\ ev'.msg.json = "invalid") => UNCHANGED prog]_vars

\* C17 witness: a malformed payload has arrived on an Open transport whose
\* heartbeat is armed
C17_Witness ==
    ev.kind = "message" /\ ev.msg.json = "invalid" /\ socks[ev.sock].hb

\* C18: an orderbook_error frame on the order-book channel invokes onError
\* once, with the server's message, and no data callback; the handler changes
\* no state and the transport stays Open.
C18_ProtocolError ==
    /\ []((/\ ev.kind = "message"
           /\ ChanOf(ev.sub) = "orderbook"
           /\ ev.msg.json = "object"
           /\ ev.msg.type = "orderbook_error") =>
            /\ calls = <<Call(ev.sub, "onError", "message")>>
            /\ socks[ev.sock].rs = "OPEN"
            /\ ~socks[ev.sock].timer)
    /\ [][(/\ ev'.kind = "message"
           /\ subs'[ev'.sub].chan = "orderbook"
           /\ ev'.msg.type = "orderbook_error") => UNCHANGED prog]_vars

\* C18 witness: an orderbook_error frame has arrived on the order-book channel
C18_Witness ==
    /\ ev.kind = "message"
    /\ ChanOf(ev.sub) = "orderbook"
    /\ ev.msg.type = "orderbook_error"

\* the step just taken received a payload that parsed, but not to an object
\* carrying the channel's discriminating field
Unrecognized ==
    /\ ev.kind = "message"
    /\ ev.msg.json # "invalid"
    /\ \/ ev.msg.json # "object"
       \/ IF ChanOf(ev.sub) = "event" THEN ~ev.msg.ticker ELSE ev.msg.type = "absent"

\* C19: a payload that parses but is not an object, or is an object without
\* the channel's discriminating field, invokes no callback and the handler
\* changes no state.
C19_UnrecognizedDropped ==
    /\ [](Unrecognized => calls = <<>> /\ socks[ev.sock].rs = "OPEN")
    /\ [][(/\ ev'.kind = "message"
           /\ ev'.msg.json # "invalid"
           /\ \/ ev'.msg.json # "object"
              \/ IF subs'[ev'.sub].chan = "event"
                 THEN ~ev'.msg.ticker ELSE ev'.msg.type = "absent")
             => UNCHANGED prog]_vars

\* C19 witness: an object without `type` has arrived on the account-event
\* channel
C19_Witness ==
    Unrecognized /\ ev.msg.json = "object" /\ ChanOf(ev.sub) = "evm"

\* C20: an error event whose callback returns invokes onError once, with the
\* 'WebSocket error' value, and changes nothing else: no transport changes
\* its readyState, no transport is constructed, no timer is set or cleared, and
\* the counter, the flag and the fields are unchanged.
C20_ErrorEvent ==
    /\ [](ev.kind = "error" => calls = <<Call(ev.sub, "onError", "WebSocket error")>>)
    /\ [][(ev'.kind = "error" /\ ~ev'.inner) =>
            /\ UNCHANGED <<subs, fields>>
            /\ Len(socks') = Len(socks)
            /\ \A s \in Socks :
                  /\ socks'[s].rs = socks[s].rs
                  /\ socks'[s].timer = socks[s].timer
                  /\ socks'[s].hb = socks[s].hb]_vars

\* C20 witness: an error event has arrived on an Open transport whose
\* heartbeat is armed
C20_Witness ==
    ev.kind = "error" /\ socks[ev.sock].rs = "OPEN" /\ socks[ev.sock].hb

\* C21 (as claimed): for a subscription that is never disposed and has
\* reconnect enabled, a close event observed while the channel's attempt
\* counter is below five schedules a reconnect timer, and the firing of that
\* timer constructs a new transport for the subscription.
C21_ReconnectFollows ==
    /\ (/\ ev.kind = "close"
        /\ subs[ev.sub].opt # "false"
        /\ ~subs[ev.sub].disposed
        /\ ev.delay = 0) => reconnectAttempts[ChanOf(ev.sub)] >= maxReconnectAttempts
    /\ (/\ ev.kind = "timer"
        /\ subs[ev.sub].opt # "false"
        /\ ~subs[ev.sub].disposed) => ev.created # 0

\* the frames of log entries es that belong to transport s
OfSession(es, s) == SelectSeq(es, LAMBDA e : e.sock = s)

\* C22 (as claimed): within one connection session the data callback is
\* invoked for the data frames (objects carrying the channel's discriminator
\* that are neither ping/pong nor a protocol error) in exactly the order they
\* arrived: the frames delivered are the data frames received, in order, none
\* repeated and none lost.
C22_SessionOrder ==
    \A s \in Socks :
        OfSession(log.out, s) =
            SelectSeq(OfSession(log.in, s),
                      LAMBDA e :
                          /\ e.msg.json = "object"
                          /\ IF ChanOf(socks[s].owner) = "event"
                             THEN e.msg.ticker
                             ELSE e.msg.type \notin {"absent", "ping", "pong"}
                          /\ ~(/\ ChanOf(socks[s].owner) = "orderbook"
                               /\ e.msg.type = "orderbook_error"))

\* C23 (as claimed): a subscription opened with reconnect set to false never
\* gets a reconnect timer from the close of its transport and never a
\* transport other than its first one.
C23_NoReconnectOption ==
    /\ (ev.kind = "close" /\ subs[ev.sub].opt = "false") => ev.delay = 0
    /\ \A s \in Socks, r \in Socks :
           (/\ s # r
            /\ socks[s].owner = socks[r].owner) => subs[socks[s].owner].opt # "false"

\* the transports constructed for subscription a
Of(a) == {s \in Socks : socks[s].owner = a}

\* nothing of subscription a is still bound to happen: none of its timers is
\* pending and none of its transports is Connecting or Closing
Settled(a) == \A s \in Of(a) : ~socks[s].timer /\ socks[s].rs \in {"OPEN", "CLOSED"}

\* no heartbeat timer, no reconnect timer, every transport Closed
Quiescent(a) == \A s \in Of(a) : ~socks[s].timer /\ ~socks[s].hb /\ socks[s].rs = "CLOSED"

\* C24 (as claimed): a subscription that is disposed, or whose transport has
\* closed with the retries exhausted, reaches a quiescent state: once nothing
\* of it is still bound to happen (no timer of its pending, no transport of
\* its Connecting or Closing) it has no heartbeat timer, no reconnect timer and
\* no transport that is not Closed.
C24_TerminalCleanup ==
    /\ \A a \in Subs : (subs[a].disposed /\ Settled(a)) => Quiescent(a)
    /\ (/\ ev.kind = "close"
        /\ ~subs[ev.sub].disposed
        /\ subs[ev.sub].opt # "false"
        /\ ev.delay = 0
        /\ Settled(ev.sub)) => Quiescent(ev.sub)

\* C25: no exception leaves a handler of the streaming manager; a parse
\* error, a protocol error and a transport error reach the caller through
\* onError only, and a close through onDisconnect only; when the caller
\* supplied no onError the error is dropped: no callback is invoked and the
\* handler of a frame changes no state, as the handler of an error event
\* changes none but the history that the close event is due.
C25_NoErrorEscapes ==
    /\ [](/\ ~ev.threw
          /\ \A i \in 1..Len(calls) :
                 /\ calls[i].arg \in {"parseError", "message", "WebSocket error"}
                        <=> calls[i].cb = "onError"
                 /\ calls[i].cb = "onDisconnect" => ev.kind = "close"
          /\ (/\ ev.kind \in {"message", "error"}
              /\ ~subs[ev.sub].onError
              /\ \/ ev.kind = "error"
                 \/ ev.msg.json = "invalid"
                 \/ ChanOf(ev.sub) = "orderbook" /\ ev.msg.type = "orderbook_error")
                 => calls = <<>>)
    /\ [][(/\ ev'.kind = "message"
           /\ ~subs'[ev'.sub].onError
           /\ \/ ev'.msg.json = "invalid"
              \/ /\ subs'[ev'.sub].chan = "orderbook"
                 /\ ev'.msg.type = "orderbook_error") => UNCHANGED prog]_vars

\* C25 witness: a payload that is not valid JSON has arrived for a
\* subscription that supplied no onError
C25_Witness ==
    ev.kind = "message" /\ ev.msg.json = "invalid" /\ ~subs[ev.sub].onError

\* C27: a heartbeat tick sends one ping on the channel's current transport if
\* that transport is Open and sends nothing otherwise (never on a transport
\* that is Connecting, Closing or Closed, and not when the channel has no
\* current transport); it changes no counter, timer or transport reference.
C27_HeartbeatTick ==
    /\ [](ev.kind = "tick" =>
              /\ ev.sent = IF /\ ws[ChanOf(ev.sub)] # 0
                              /\ socks[ws[ChanOf(ev.sub)]].rs = "OPEN"
                           THEN ws[ChanOf(ev.sub)]
                           ELSE 0
              /\ ev.sent # 0 => socks[ev.sent].rs = "OPEN")
    /\ [][ev'.kind = "tick" => UNCHANGED prog]_vars

\* C27 witness: a tick has found the channel's current transport Open and has
\* sent its ping on it
C27_Witness ==
    /\ ev.kind = "tick"
    /\ ev.sent # 0
    /\ ev.sent = ws[ChanOf(ev.sub)]
    /\ socks[ev.sent].rs = "OPEN"

\* the pending reconnect timers of channel c
PendingOn(c) == {s \in Socks : ChanOf(socks[s].owner) = c /\ socks[s].timer}

\* C30 (as claimed): at most one reconnect timer is pending per channel; a
\* pending timer is the one the channel's timer reference holds (the reference
\* is never overwritten while the timer it held is pending), its subscription
\* is not disposed, and the channel's transport is Closed while it is pending.
C30_ReconnectTimer ==
    \A c \in Channels :
        /\ Cardinality(PendingOn(c)) <= 1
        /\ \A s \in PendingOn(c) :
               /\ reconnectTimer[c] = s
               /\ ~subs[socks[s].owner].disposed
               /\ ws[c] # 0 => socks[ws[c]].rs = "CLOSED"

\* C28: on a client constructed without devFlags each of getDevAccountFees,
\* getDevAccountInfo, getFeeClaimAuthorization, getDevFeeClaimHistory and
\* claimDevFees fails with an error whose message contains "devFlags required"
\* and names the operation, and has signed nothing, sent no HTTP request and
\* written to no contract.
C28_DevFlagsRequired ==
    (~app.devFlags /\ app.op \in DevOps) =>
        /\ app.error = [text |-> "devFlags required for", of |-> app.op]
        /\ app.trace = <<>>
        /\ app.effects = <<>>

\* C28 witness: claimDevFees has been called on a client without devFlags
C28_Witness == ~app.devFlags /\ app.op = "claimDevFees"

\* str is an optional minus sign and one or more decimal digits
IsInteger(str) ==
    LET ds == IF str # <<>> /\ str[1] = "-" THEN Tail(str) ELSE str
    IN  ds # <<>> /\ IsDigits(ds)

\* C29 (as claimed): for every precision p in 0..2 and every integer quantity
\* q, quantityToFixedPoint(q, p) has the form <integer>.<two decimal digits>
\* and denotes q / 10^p: in hundredths, the digits before and after the point
\* make q * 10^(2-p), negated when the string starts with a minus sign.
C29_TwoFractionalDigits ==
    conv.fn = "quantityToFixedPoint" =>
        LET n == Len(conv.text)
            whole == SubSeq(conv.text, 1, n - 3)
            frac == SubSeq(conv.text, n - 1, n)
            neg == whole # <<>> /\ whole[1] = "-"
            mag == IF neg THEN Tail(whole) ELSE whole
        IN  /\ n >= 4
            /\ conv.text[n - 2] = "."
            /\ IsInteger(whole)
            /\ IsDigits(frac)
            /\ (IF neg THEN -1 ELSE 1) * (100 * ValueOf(mag) + ValueOf(frac))
                   = conv.q * 10 ^ (2 - conv.p)

\* C33: the open event of a session arms a heartbeat timer if and only if the
\* subscription's reconnect option is true or omitted; no transport of a
\* subscription created with reconnect: false ever has a heartbeat armed, and
\* no heartbeat tick (the only place a ping is sent) belongs to such a
\* subscription.
C33_HeartbeatIffReconnect ==
    /\ ev.kind = "open" => (socks[ev.sock].hb <=> subs[ev.sub].opt # "false")
    /\ \A s \in Socks : socks[s].hb => subs[socks[s].owner].opt # "false"
    /\ ev.kind = "tick" => subs[ev.sub].opt # "false"

\* C33 witness: the transport of a subscription created with reconnect: false
\* has opened
C33_Witness ==
    ev.kind = "open" /\ subs[ev.sub].opt = "false" /\ socks[ev.sock].rs = "OPEN"

\* the per-channel fields of channel c
FieldsOf(c) ==
    <<ws[c], shouldReconnect[c], reconnectAttempts[c], reconnectTimer[c],
      heartbeatTimer[c]>>

\* the channel of the step just taken
StepChannel == ChanOf(ev.sub)

\* C34: a listen* call, an open, message, error or close event, a heartbeat
\* tick, a reconnect timer and a dispose of one channel kind leave the
\* transport reference, reconnect flag, attempt counter and both timers of the
\* other two channel kinds unchanged, and so the transports, timers and
\* intervals of their subscriptions.
C34_ChannelsIndependent ==
    [][\A c \in Channels :
           c # subs'[ev'.sub].chan =>
               /\ FieldsOf(c)' = FieldsOf(c)
               /\ \A s \in Socks : ChanOf(socks[s].owner) = c => socks'[s] = socks[s]
               /\ \A a \in Subs : ChanOf(a) = c => subs'[a] = subs[a]]_vars

\* C34 witness: a subscription has been disposed while another channel kind
\* has an Open transport with its heartbeat armed and its reconnect flag set
C34_Witness ==
    /\ ev.kind = "dispose"
    /\ \E c \in Channels \ {StepChannel} :
           /\ ws[c] # 0
           /\ socks[ws[c]].rs = "OPEN"
           /\ heartbeatTimer[c] # 0
           /\ shouldReconnect[c]

\* C32: an exception thrown by the data callback while it handles a frame is
\* caught by the message handler and reported through onError (when one was
\* supplied), so the frame causes a data callback and an onError invocation;
\* no exception leaves the handler, the transport stays Open, and unless the
\* callback itself called the disposer no transport, timer, counter or flag
\* changes.
C32_ThrowingDataCallback ==
    /\ []((ev.kind = "message" /\ ev.raised) =>
              /\ calls = <<[sub |-> ev.sub, cb |-> "onData", arg |-> "data"]>>
                         \o (IF subs[ev.sub].onError
                             THEN <<[sub |-> ev.sub, cb |-> "onError", arg |-> "thrown"]>>
                             ELSE <<>>)
              /\ ~ev.threw
              /\ ~ev.inner => socks[ev.sock].rs = "OPEN")
    /\ [][(ev'.kind = "message" /\ ev'.raised /\ ~ev'.inner) => UNCHANGED prog]_vars

\* C32 witness: one frame has caused the data callback, which threw, and an
\* onError invocation
C32_Witness ==
    /\ ev.kind = "message"
    /\ ev.raised
    /\ Len(calls) = 2
    /\ calls[2].cb = "onError"
    /\ socks[ev.sock].rs = "OPEN"

\* the digits of a given string before and after its point, blanks left out
Shown(str) == SelectSeq(str, LAMBDA ch : ch # " ")
DotOf(str) == IF \E i \in 1..Len(str) : str[i] = "."
              THEN CHOOSE i \in 1..Len(str) : str[i] = "."
              ELSE Len(str) + 1
WholeOf(str) == SubSeq(Shown(str), 1, DotOf(Shown(str)) - 1)
FracOf(str) == SubSeq(Shown(str), DotOf(Shown(str)) + 1, Len(Shown(str)))

\* C39: for every precision p in 0..2 and every quantity q >= 0,
\* fixedPointToQuantity(quantityToFixedPoint(q, p), p) = q; and for a decimal
\* string with up to three fractional digits fixedPointToQuantity returns the
\* value in units of 10^-p with the digits beyond p cut off, not rounded, a
\* missing fractional part counting as zero.
C39_FixedPointRoundTrip ==
    /\ (/\ conv.fn = "fixedPointToQuantity"
        /\ conv.from = "quantityToFixedPoint"
        /\ conv.q >= 0) => conv.back = [error |-> FALSE, value |-> conv.q]
    /\ (conv.fn = "fixedPointToQuantity" /\ conv.from = "text") =>
           conv.back =
               [error |-> FALSE,
                value |-> (ValueOf(WholeOf(conv.text)) * 1000
                               + ValueOf(FracOf(conv.text))
                                     * 10 ^ (3 - Len(FracOf(conv.text))))
                              \div 10 ^ (3 - conv.p)]

\* C39 witness: the string "1.05" that quantityToFixedPoint returned for
\* (105, 2) has been converted back
C39_Witness ==
    /\ conv.fn = "fixedPointToQuantity"
    /\ conv.from = "quantityToFixedPoint"
    /\ conv.q = 105
    /\ conv.p = 2
    /\ conv.text = <<"1", ".", "0", "5">>

\* C38 (as claimed): for every integer amount x, negative ones included,
\* uusdcToUsdc(x) is a decimal string with exactly six fractional digits (an
\* optional minus sign, digits, a point, six digits) and
\* usdcToUusdc(uusdcToUsdc(x)) = x; "1.5" converts to 1500000.
C38_UusdcRoundTrip ==
    /\ (\/ conv.fn = "uusdcToUsdc"
        \/ conv.fn = "usdcToUusdc" /\ conv.from = "uusdcToUsdc") =>
           LET n == Len(conv.text)
           IN  /\ n >= 8
               /\ conv.text[n - 6] = "."
               /\ IsInteger(SubSeq(conv.text, 1, n - 7))
               /\ IsDigits(SubSeq(conv.text, n - 5, n))
    /\ (conv.fn = "usdcToUusdc" /\ conv.from = "uusdcToUsdc") =>
           conv.back = [error |-> FALSE, value |-> conv.q]
    /\ (/\ conv.fn = "usdcToUusdc"
        /\ conv.from = "text"
        /\ conv.text = <<"1", ".", "5">>) => conv.back = [error |-> FALSE, value |-> 1500000]

\* the flows started and the calls a flow has issued
Flows == 1..Len(app.flows)
Issued(flow, call) == \E i \in 1..Len(flow.trace) : flow.trace[i] = call
WalletCalls == {"signTypedData", "placeOrder", "approve", "depositUSDC", "withdrawUSDC"}

\* C31 (as claimed): among all the flow operations started, concurrently
\* started ones included, at most one issues GET /info; a flow whose GET /info
\* fails leaves infoCache as it was and raises without having signed typed
\* data, placed an order, written to a contract or subscribed.
C31_InfoFetchedOnce ==
    /\ [](Cardinality({f \in Flows : Issued(app.flows[f], "getInfo")}) <= 1)
    /\ [][\A f \in Flows :
              (/\ app.flows[f].pc = "getChainInfo"
               /\ app'.flows[f].pc = "throw") =>
                  /\ app'.cached = app.cached
                  /\ app'.flows[f].error = [text |-> "rejected", of |-> "getChainInfo"]
                  /\ app'.flows[f].sub = 0
                  /\ \A c \in WalletCalls \cup {"listen"} : ~Issued(app'.flows[f], c)]_vars

\* the place of a call in the trace of a flow (0 when it was not issued)
At(flow, call) ==
    IF Issued(flow, call) THEN CHOOSE i \in 1..Len(flow.trace) : flow.trace[i] = call ELSE 0
\* what a call of a flow resolved to ("none" when it was not issued or is pending)
Result(flow, call) ==
    IF At(flow, call) \in 1..Len(flow.results) THEN flow.results[At(flow, call)] ELSE "none"
Times(flow, call) == Cardinality({i \in 1..Len(flow.trace) : flow.trace[i] = call})

\* C35: in executeDepositFlow the approve transaction is sent exactly when the
\* allowance read is below the amount; depositUSDC is sent at most once, after
\* the allowance was read and, when approve was sent, after its receipt was
\* awaited and obtained; it is not sent when the allowance read, the approve
\* transaction or its receipt fails, and a flow that returns has sent it once.
C35_DepositOrdering ==
    \A f \in Flows :
        LET flow == app.flows[f]
        IN  flow.op = "executeDepositFlow" =>
                /\ Issued(flow, "approve") <=> Result(flow, "readContract") = "below"
                /\ Times(flow, "depositUSDC") <= 1
                /\ Times(flow, "approve") <= 1
                /\ Issued(flow, "depositUSDC") =>
                       /\ Result(flow, "readContract") \in {"below", "enough"}
                       /\ At(flow, "readContract") < At(flow, "depositUSDC")
                       /\ Issued(flow, "approve") =>
                              /\ Result(flow, "approve") = "ok"
                              /\ Result(flow, "approveReceipt") = "ok"
                              /\ At(flow, "approve") < At(flow, "approveReceipt")
                              /\ At(flow, "approveReceipt") < At(flow, "depositUSDC")
                /\ (\E c \in {"readContract", "approve", "approveReceipt"} :
                        Result(flow, c) = "fail") => ~Issued(flow, "depositUSDC")
                /\ flow.pc = "return" => Times(flow, "depositUSDC") = 1

\* C35 witness: a deposit flow returned after an approve transaction
C35_Witness ==
    \E f \in Flows :
        /\ app.flows[f].op = "executeDepositFlow"
        /\ app.flows[f].pc = "return"
        /\ Issued(app.flows[f], "approve")
        /\ Issued(app.flows[f], "depositUSDC")

\* C36: a claimWithdraw whose authorization has maxWithdrawAmount 0 raises
\* 'No unclaimed withdrawals available', a claimDevFees whose authorization
\* has amount 0 raises 'No unclaimed fees available', and neither issues a
\* withdrawUSDC contract write.
C36_ZeroAmountRejected ==
    \A f \in Flows :
        LET flow == app.flows[f]
        IN  /\ (/\ flow.op = "claimWithdraw"
                /\ Result(flow, "getWithdrawAuthorization") = "zero") =>
                   /\ flow.pc = "throw"
                   /\ flow.error = [text |-> "No unclaimed withdrawals available",
                                    of |-> "none"]
                   /\ ~Issued(flow, "withdrawUSDC")
            /\ (/\ flow.op = "claimDevFees"
                /\ Result(flow, "getFeeClaimAuthorization") = "zero") =>
                   /\ flow.pc = "throw"
                   /\ flow.error = [text |-> "No unclaimed fees available", of |-> "none"]
                   /\ ~Issued(flow, "withdrawUSDC")
                   /\ ~Issued(flow, "getInfo")

\* C36 witness: both kinds of claim were answered by an authorization for a
\* zero amount
C36_Witness ==
    /\ \E f \in Flows :
           /\ app.flows[f].op = "claimWithdraw"
           /\ Result(app.flows[f], "getWithdrawAuthorization") = "zero"
    /\ \E f \in Flows :
           /\ app.flows[f].op = "claimDevFees"
           /\ Result(app.flows[f], "getFeeClaimAuthorization") = "zero"

\* C37: a buy or sell flow subscribes only after signTypedData and then
\* placeOrder resolved; a flow that has not subscribed, a failed one included,
\* has created no subscription, and while no flow has subscribed there is no
\* transport and no timer; the step of a flow that subscribes creates one
\* subscription of the account-event channel with reconnect: true, and the
\* disposer the flow returns is that subscription's.
C37_TradeOrdering ==
    /\ [](\A f \in Flows :
              LET flow == app.flows[f]
              IN  /\ Issued(flow, "listen") =>
                         /\ Result(flow, "signTypedData") = "ok"
                         /\ Result(flow, "placeOrder") = "ok"
                         /\ At(flow, "signTypedData") < At(flow, "placeOrder")
                         /\ At(flow, "placeOrder") < At(flow, "listen")
                         /\ flow.pc = "return"
                         /\ flow.sub \in 1..Len(subs)
                  /\ ~Issued(flow, "listen") => flow.sub = 0
                  /\ flow.pc = "throw" => ~Issued(flow, "listen"))
    /\ []((\A f \in Flows : ~Issued(app.flows[f], "listen")) =>
              /\ subs = <<>>
              /\ socks = <<>>
              /\ \A c \in Channels :
                     ws[c] = 0 /\ reconnectTimer[c] = 0 /\ heartbeatTimer[c] = 0)
    /\ [](Len(subs) = Cardinality({f \in Flows : Issued(app.flows[f], "listen")}))
    /\ [](\A f, g \in Flows :
              (f # g /\ app.flows[f].sub # 0) => app.flows[f].sub # app.flows[g].sub)
    /\ [][\A f \in Flows :
              (f <= Len(app.flows) /\ app'.flows[f] # app.flows[f]) =>
                  IF Issued(app'.flows[f], "listen")
                  THEN /\ subs' = Append(subs, [chan |-> "evm", opt |-> "true",
                                                onError |-> subs'[Len(subs')].onError,
                                                disposed |-> FALSE])
                       /\ app'.flows[f].sub = Len(subs')
                       /\ ev'.kind = "listen"
                       /\ ev'.sub = app'.flows[f].sub
                  ELSE UNCHANGED stream]_vars
    /\ [][(Len(app'.flows) > Len(app.flows)) => UNCHANGED stream]_vars

\* C37 witness: a sell flow returned after subscribing, the transport of its
\* subscription has opened, and the disposer it returned was called
C37_Witness ==
    \E f \in Flows :
        /\ app.flows[f].op = "executeSellFlow"
        /\ app.flows[f].pc = "return"
        /\ app.flows[f].sub \in 1..Len(subs)
        /\ subs[app.flows[f].sub].disposed
        /\ \E s \in 1..Len(socks) : socks[s].owner = app.flows[f].sub /\ socks[s].everOpen

============================================================================
